---- MODULE Spec2Model ----
(***************************************************************************)
(* AI Air Canvas: the per-frame gesture handlers of the desktop loop       *)
(* (main.py) and of the streaming processor (app.py), the finger-state     *)
(* classifier (src/hand_detector.py) and the palette (src/color_palette.py)*)
(***************************************************************************)
EXTENDS Integers, Sequences, FiniteSets, TLC

VARIABLES
    shell,            \* which program runs: "desktop" (main.py) or "stream" (app.py)
    pc,               \* position in the desktop loop: "frame", "key", "done"; "recv" for the processor
    op,               \* the operation that produced this state
    landmark_list,    \* HandDetector.landmark_list of the current frame
    canvas,           \* the canvas raster, one colour per modelled pixel
    draw_color,
    brush_thickness,
    is_eraser_mode,   \* app.py only; main.py has no such flag (kept FALSE)
    prev_x,
    prev_y,
    mode_text,        \* the gesture label the frame handler put on the frame
    line_call,        \* the cv2.line call the last frame made on the canvas
    sel_in,           \* input of a palette lookup: <<frame_width, header_height, x, y>>
    sel_out,          \* its result
    mix_in,           \* input of a compositing step: <<camera pixel, canvas pixel>>
    mix_out,          \* its output pixel
    steps,            \* operations performed so far in this run
    raised,           \* the exception the last operation raised, "" if none
    key,              \* main.py: the key the last cv2.waitKey returned
    imwrite_result,   \* main.py: how the last cv2.imwrite ended
    printed,          \* main.py: the message the last key press printed
    fu_in,            \* input of a finger classification: a landmark list
    fu_out,           \* its result
    conc              \* the threads of an overlapped recv and setter call

vars == <<shell, pc, op, landmark_list, canvas, draw_color, brush_thickness,
          is_eraser_mode, prev_x, prev_y, mode_text, line_call,
          sel_in, sel_out, mix_in, mix_out, steps,
          raised, key, imwrite_result, printed, fu_in, fu_out, conc>>

-----------------------------------------------------------------------------
(* Bounds of the model *)

MaxCursors == 3      \* how many fingertip positions of CursorPool the detector reports
MaxPixels == 3       \* how many canvas pixels of PixelPool are modelled
MaxSteps == 3        \* how many operations (frames, key presses, calls) a run has
MaxMargin == 2       \* how far outside the frame a looked-up point may lie
MaxOffset == 1       \* how many pixels a fingertip lies off its joint, either way

CursorPool == <<
    <<0, 0>>, <<100, 100>>, <<600, 40>>, <<120, 100>>, <<110, 100>>, <<50, 50>> >>
PixelPool == <<
    <<100, 100>>, <<110, 100>>, <<0, 0>>, <<300, 300>>, <<50, 50>>, <<105, 100>> >>

Cursors == {CursorPool[i] : i \in 1..MaxCursors}
Pixels == {PixelPool[i] : i \in 1..MaxPixels}

Shells == {"desktop", "stream"}
None == <<>>
Unset == <<-1>>

-----------------------------------------------------------------------------
(* Configuration *)

CAMERA_WIDTH(sh) == IF sh = "stream" THEN 640 ELSE 1280
CAMERA_HEIGHT(sh) == IF sh = "stream" THEN 480 ELSE 720
BRUSH_THICKNESS == 15
ERASER_THICKNESS == 50
ERASER_COLOR == <<0, 0, 0>>
Background == <<0, 0, 0>>

COLORS == [purple |-> <<255, 0, 255>>, blue |-> <<255, 0, 0>>,
           green |-> <<0, 255, 0>>, red |-> <<0, 0, 255>>,
           yellow |-> <<0, 255, 255>>]

DefaultHeaderHeight == 100
StreamHeaderHeight == 80
header_height(sh) == IF sh = "stream" THEN StreamHeaderHeight ELSE DefaultHeaderHeight

-----------------------------------------------------------------------------
(* ColorPalette *)

colors == <<
    [name |-> "Purple", bgr |-> <<255, 0, 255>>],
    [name |-> "Blue",   bgr |-> <<255, 0, 0>>],
    [name |-> "Green",  bgr |-> <<0, 255, 0>>],
    [name |-> "Red",    bgr |-> <<0, 0, 255>>],
    [name |-> "Yellow", bgr |-> <<0, 255, 255>>],
    [name |-> "Eraser", bgr |-> <<0, 0, 0>>] >>

num_colors == Len(colors)

box_width(fw) == fw \div num_colors

\* color_boxes with half-open spans: box i ends one pixel before box i+1.
color_boxes_half_open(fw, hh) ==
    [i \in 1..num_colors |->
        [x1 |-> (i - 1) * box_width(fw), x2 |-> i * box_width(fw) - 1,
         y1 |-> 0, y2 |-> hh,
         color |-> colors[i].bgr, name |-> colors[i].name]]

color_boxes(fw, hh) ==
    [i \in 1..num_colors |->
        [x1 |-> (i - 1) * box_width(fw), x2 |-> i * box_width(fw),
         y1 |-> 0, y2 |-> hh,
         color |-> colors[i].bgr, name |-> colors[i].name]]

InBox(box, x, y) ==
    /\ box.x1 <= x /\ x <= box.x2
    /\ box.y1 <= y /\ y <= box.y2

\* check_selection without its test of the header band.
check_selection_no_band(fw, hh, x, y) ==
    LET boxes == color_boxes(fw, hh)
        hits == {i \in 1..num_colors : boxes[i].x1 <= x /\ x <= boxes[i].x2}
    IN  IF hits = {} THEN None
        ELSE boxes[CHOOSE i \in hits : \A j \in hits : i <= j].color

check_selection(fw, hh, x, y) ==
    LET boxes == color_boxes(fw, hh)
        hits == {i \in 1..num_colors : InBox(boxes[i], x, y)}
    IN  IF y > hh THEN None
        ELSE IF hits = {} THEN None
        ELSE boxes[CHOOSE i \in hits : \A j \in hits : i <= j].color

-----------------------------------------------------------------------------
(* HandDetector *)

THUMB_TIP == 4
INDEX_TIP == 8
MIDDLE_TIP == 12
RING_TIP == 16
PINKY_TIP == 20
TIP_IDS == <<4, 8, 12, 16, 20>>
NumLandmarks == 21

FingerVectors == [1..5 -> {0, 1}]

\* Landmark id k of a list (Python indexes from 0): <<id, x, y>>.
Lm(ll, k) == ll[k + 1]

\* find_position: the [id, cx, cy] list of a detected hand.  The hand is the
\* one whose index tip is at p and whose tip/joint pairs realise the finger
\* vector f (a raised finger has its tip one pixel beyond the joint).
find_position(f, p) ==
    [k \in 1..NumLandmarks |->
        LET id == k - 1 IN
        IF id = THUMB_TIP THEN <<id, p[1] - f[1], p[2]>>
        ELSE IF id = INDEX_TIP - 2 THEN <<id, p[1], p[2] + f[2]>>
        ELSE IF id = MIDDLE_TIP - 2 THEN <<id, p[1], p[2] + f[3]>>
        ELSE IF id = RING_TIP - 2 THEN <<id, p[1], p[2] + f[4]>>
        ELSE IF id = PINKY_TIP - 2 THEN <<id, p[1], p[2] + f[5]>>
        ELSE <<id, p[1], p[2]>>]

\* The value that stands for a raised IndexError.
IndexError == <<-2>>

\* The list indices fingers_up reads of a non-empty list.
FingersUpReads ==
    {THUMB_TIP, THUMB_TIP - 1} \cup {TIP_IDS[n] : n \in 2..5}
    \cup {TIP_IDS[n] - 2 : n \in 2..5}

fingers_up_nonstrict(ll) ==
    IF Len(ll) = 0 THEN <<0, 0, 0, 0, 0>>
    ELSE IF \E k \in FingersUpReads : k >= Len(ll) THEN IndexError
    ELSE
        <<IF Lm(ll, THUMB_TIP)[2] <= Lm(ll, THUMB_TIP - 1)[2] THEN 1 ELSE 0>>
        \o [n \in 1..4 |->
              LET tip_id == TIP_IDS[n + 1] IN
              IF Lm(ll, tip_id)[3] <= Lm(ll, tip_id - 2)[3] THEN 1 ELSE 0]

fingers_up(ll) ==
    IF Len(ll) = 0 THEN <<0, 0, 0, 0, 0>>
    ELSE IF \E k \in FingersUpReads : k >= Len(ll) THEN IndexError
    ELSE
        <<IF Lm(ll, THUMB_TIP)[2] < Lm(ll, THUMB_TIP - 1)[2] THEN 1 ELSE 0>>
        \o [n \in 1..4 |->
              LET tip_id == TIP_IDS[n + 1] IN
              IF Lm(ll, tip_id)[3] < Lm(ll, tip_id - 2)[3] THEN 1 ELSE 0]

get_finger_tip(ll, finger_id) ==
    IF Len(ll) = 0 THEN None
    ELSE LET tip_id == TIP_IDS[finger_id + 1]
         IN  IF tip_id >= Len(ll) THEN IndexError
             ELSE <<Lm(ll, tip_id)[2], Lm(ll, tip_id)[3]>>

-----------------------------------------------------------------------------
(* The canvas *)

BlankCanvas == [q \in Pixels |-> Background]

Sq(n) == n * n
Min2(a, b) == IF a < b THEN a ELSE b
Max2(a, b) == IF a > b THEN a ELSE b

\* Pixel q is painted by a line from a to b of the given thickness: q lies
\* within half the thickness of the segment (round end caps; a zero-length
\* line paints a disc).
Covers(q, a, b, thickness) ==
    LET r == thickness \div 2
        dx == b[1] - a[1]
        dy == b[2] - a[2]
        qx == q[1] - a[1]
        qy == q[2] - a[2]
        len2 == Sq(dx) + Sq(dy)
        along == qx * dx + qy * dy
        inBox == /\ Min2(a[1], b[1]) - r <= q[1] /\ q[1] <= Max2(a[1], b[1]) + r
                 /\ Min2(a[2], b[2]) - r <= q[2] /\ q[2] <= Max2(a[2], b[2]) + r
    IN  /\ inBox
        /\ IF len2 = 0 \/ along <= 0 THEN Sq(qx) + Sq(qy) <= Sq(r)
           ELSE IF along >= len2 THEN Sq(q[1] - b[1]) + Sq(q[2] - b[2]) <= Sq(r)
           ELSE Sq(qx * dy - qy * dx) <= Sq(r) * len2

\* cv2.line blending the stroke half and half with what the pixel held.
cv2_line_blended(cv, a, b, color, thickness) ==
    [q \in Pixels |->
        IF Covers(q, a, b, thickness)
        THEN <<(color[1] + cv[q][1]) \div 2, (color[2] + cv[q][2]) \div 2,
               (color[3] + cv[q][3]) \div 2>>
        ELSE cv[q]]

cv2_line(cv, a, b, color, thickness) ==
    [q \in Pixels |-> IF Covers(q, a, b, thickness) THEN color ELSE cv[q]]

NoLine == <<>>

-----------------------------------------------------------------------------
(* Session state handled by one frame: the canvas and the drawing state.   *)

Session ==
    [canvas |-> canvas, draw_color |-> draw_color,
     brush_thickness |-> brush_thickness, is_eraser_mode |-> is_eraser_mode,
     prev_x |-> prev_x, prev_y |-> prev_y,
     mode_text |-> mode_text, line_call |-> line_call,
     raised |-> raised, printed |-> printed]

\* A new frame image carries no gesture label and no line has been drawn yet.
NewFrame(s) == [s EXCEPT !.mode_text = "", !.line_call = NoLine, !.raised = ""]

\* An IndexError leaves the handler before it has assigned anything.
Raise(s) == [s EXCEPT !.raised = "IndexError"]

SELECTION == <<0, 1, 1, 0, 0>>
DRAWING == <<0, 1, 0, 0, 0>>
CLEAR == <<1, 1, 1, 1, 1>>
FIST == <<0, 0, 0, 0, 0>>

-----------------------------------------------------------------------------
(* AirCanvasProcessor.recv (app.py) *)

\* recv's Selection branch falling back to the default colour when no swatch
\* is under the cursor.
recv_selection_resets(s, index_tip) ==
    LET t == [s EXCEPT !.prev_x = 0, !.prev_y = 0, !.mode_text = "SELECTION"]
        selected == check_selection(CAMERA_WIDTH("stream"), header_height("stream"),
                                    index_tip[1], index_tip[2])
    IN  IF index_tip = None THEN t
        ELSE IF selected = None THEN [t EXCEPT !.draw_color = COLORS.purple]
        ELSE IF selected = ERASER_COLOR
             THEN [t EXCEPT !.draw_color = selected, !.is_eraser_mode = TRUE,
                            !.brush_thickness = ERASER_THICKNESS]
             ELSE [t EXCEPT !.draw_color = selected, !.is_eraser_mode = FALSE,
                            !.brush_thickness = BRUSH_THICKNESS]

recv_selection(s, index_tip) ==
    LET t == [s EXCEPT !.prev_x = 0, !.prev_y = 0, !.mode_text = "SELECTION"]
        selected == check_selection(CAMERA_WIDTH("stream"), header_height("stream"),
                                    index_tip[1], index_tip[2])
    IN  IF index_tip = None THEN t
        ELSE IF selected = None THEN t
        ELSE IF selected = ERASER_COLOR
             THEN [t EXCEPT !.draw_color = selected, !.is_eraser_mode = TRUE,
                            !.brush_thickness = ERASER_THICKNESS]
             ELSE [t EXCEPT !.draw_color = selected, !.is_eraser_mode = FALSE,
                            !.brush_thickness = BRUSH_THICKNESS]

\* recv's Drawing branch drawing with the default brush thickness.
recv_drawing_default_brush(s, index_tip) ==
    LET t == [s EXCEPT !.mode_text = "DRAWING"]
        from == IF s.prev_x = 0 /\ s.prev_y = 0 THEN index_tip
                ELSE <<s.prev_x, s.prev_y>>
    IN  IF index_tip = None THEN t
        ELSE [t EXCEPT
                !.canvas = cv2_line(s.canvas, from, index_tip,
                                    s.draw_color, BRUSH_THICKNESS),
                !.line_call = <<from, index_tip, s.draw_color, BRUSH_THICKNESS>>,
                !.prev_x = index_tip[1], !.prev_y = index_tip[2]]

recv_drawing(s, index_tip) ==
    LET t == [s EXCEPT !.mode_text = "DRAWING"]
        from == IF s.prev_x = 0 /\ s.prev_y = 0 THEN index_tip
                ELSE <<s.prev_x, s.prev_y>>
    IN  IF index_tip = None THEN t
        ELSE [t EXCEPT
                !.canvas = cv2_line(s.canvas, from, index_tip,
                                    s.draw_color, s.brush_thickness),
                !.line_call = <<from, index_tip, s.draw_color, s.brush_thickness>>,
                !.prev_x = index_tip[1], !.prev_y = index_tip[2]]

\* recv's Clear branch without the reset of the canvas.
recv_clear_keeps_canvas(s) ==
    [s EXCEPT !.mode_text = "CLEAR", !.prev_x = 0, !.prev_y = 0]

recv_clear(s) ==
    [s EXCEPT !.mode_text = "CLEAR", !.canvas = BlankCanvas,
              !.prev_x = 0, !.prev_y = 0]

\* recv's Eraser branch raising the flag without switching colour and brush.
recv_eraser_flag_only(s) ==
    [s EXCEPT !.mode_text = "ERASER", !.is_eraser_mode = TRUE,
              !.prev_x = 0, !.prev_y = 0]

recv_eraser(s) ==
    [s EXCEPT !.mode_text = "ERASER", !.is_eraser_mode = TRUE,
              !.draw_color = ERASER_COLOR, !.brush_thickness = ERASER_THICKNESS,
              !.prev_x = 0, !.prev_y = 0]

\* recv's fallback branch clearing the canvas as well.
recv_idle_clears(s) ==
    [s EXCEPT !.prev_x = 0, !.prev_y = 0, !.canvas = BlankCanvas]

recv_idle(s) == [s EXCEPT !.prev_x = 0, !.prev_y = 0]

\* recv dispatching on the finger vector without testing for a hand.
recv_no_hand_check(s, ll) ==
    LET index_tip == get_finger_tip(ll, 1)
        fingers == fingers_up(ll)
        t == NewFrame(s)
    IN  IF index_tip = IndexError \/ fingers = IndexError THEN Raise(t)
        ELSE IF fingers = SELECTION THEN recv_selection(t, index_tip)
        ELSE IF fingers = DRAWING THEN recv_drawing(t, index_tip)
        ELSE IF fingers = CLEAR THEN recv_clear(t)
        ELSE IF fingers = FIST THEN recv_eraser(t)
        ELSE recv_idle(t)

recv(s, ll) ==
    LET index_tip == get_finger_tip(ll, 1)
        fingers == fingers_up(ll)
        t == NewFrame(s)
    IN  IF Len(ll) # 0 THEN
            IF index_tip = IndexError \/ fingers = IndexError THEN Raise(t)
            ELSE IF fingers = SELECTION THEN recv_selection(t, index_tip)
            ELSE IF fingers = DRAWING THEN recv_drawing(t, index_tip)
            ELSE IF fingers = CLEAR THEN recv_clear(t)
            ELSE IF fingers = FIST THEN recv_eraser(t)
            ELSE recv_idle(t)
        ELSE t

-----------------------------------------------------------------------------
(* The frame part of one iteration of the loop of main (main.py) *)

main_selection(s, index_tip) ==
    LET t == [s EXCEPT !.prev_x = 0, !.prev_y = 0, !.mode_text = "SELECTION MODE"]
        selected == check_selection(CAMERA_WIDTH("desktop"), header_height("desktop"),
                                    index_tip[1], index_tip[2])
    IN  IF index_tip = None THEN t
        ELSE IF selected = None THEN t
        ELSE [t EXCEPT !.draw_color = selected]

main_drawing(s, index_tip) ==
    LET t == [s EXCEPT !.mode_text = "DRAWING MODE"]
        from == IF s.prev_x = 0 /\ s.prev_y = 0 THEN index_tip
                ELSE <<s.prev_x, s.prev_y>>
    IN  IF index_tip = None THEN t
        ELSE [t EXCEPT
                !.canvas = cv2_line(s.canvas, from, index_tip,
                                    s.draw_color, s.brush_thickness),
                !.line_call = <<from, index_tip, s.draw_color, s.brush_thickness>>,
                !.prev_x = index_tip[1], !.prev_y = index_tip[2]]

main_clear(s) ==
    [s EXCEPT !.mode_text = "CLEAR CANVAS", !.canvas = BlankCanvas,
              !.prev_x = 0, !.prev_y = 0]

main_idle(s) == [s EXCEPT !.prev_x = 0, !.prev_y = 0]

main_frame(s, ll) ==
    LET index_tip == get_finger_tip(ll, 1)
        fingers == fingers_up(ll)
        t == NewFrame(s)
    IN  IF Len(ll) # 0 THEN
            IF index_tip = IndexError \/ fingers = IndexError THEN Raise(t)
            ELSE IF fingers = SELECTION THEN main_selection(t, index_tip)
            ELSE IF fingers = DRAWING THEN main_drawing(t, index_tip)
            ELSE IF fingers = CLEAR THEN main_clear(t)
            ELSE main_idle(t)
        ELSE t

\* Keyboard controls at the end of an iteration; "" is no key pressed.
Keys == {"", "q", "c", "s", "1", "2", "3", "4", "5"}

\* How cv2.imwrite can end: the file is written, the write fails and False
\* is returned (a missing folder), or the call raises (no encoder).
WriteOutcomes == {"ok", "false", "raise"}

Exiting == "Exiting AI Air Canvas..."
Cleared == "Canvas cleared!"
Saved == "Drawing saved to: output/drawing.png"
SaveError == "Error saving. Make sure 'output' folder exists!"

\* The 's' key: the return value of cv2.imwrite is not looked at.
main_save(s, w) ==
    IF w = "raise" THEN [s EXCEPT !.printed = SaveError]
    ELSE [s EXCEPT !.printed = Saved]

main_key(s, k, w) ==
    IF k = "q" THEN [s EXCEPT !.printed = Exiting]
    ELSE IF k = "c" THEN [s EXCEPT !.canvas = BlankCanvas, !.printed = Cleared]
    ELSE IF k = "s" THEN main_save(s, w)
    ELSE IF k = "1" THEN [s EXCEPT !.draw_color = COLORS.purple]
    ELSE IF k = "2" THEN [s EXCEPT !.draw_color = COLORS.blue]
    ELSE IF k = "3" THEN [s EXCEPT !.draw_color = COLORS.green]
    ELSE IF k = "4" THEN [s EXCEPT !.draw_color = COLORS.red]
    ELSE IF k = "5" THEN [s EXCEPT !.draw_color = COLORS.yellow]
    ELSE s

-----------------------------------------------------------------------------
(* Compositing of the canvas onto the camera frame, one pixel *)

\* cv2.cvtColor(BGR2GRAY) on 8-bit pixels: fixed-point weights, shift 14.
bgr2gray(px) ==
    (px[1] * 1868 + px[2] * 9617 + px[3] * 4899 + 8192) \div 16384

MaskThreshold == 20

\* The mask with a higher luminance threshold.
threshold_inv_high(gray) == IF gray > MaskThreshold + 10 THEN 0 ELSE 255

\* cv2.threshold(gray, 20, 255, THRESH_BINARY_INV)
threshold_inv(gray) == IF gray > MaskThreshold THEN 0 ELSE 255

RECURSIVE BitAnd(_, _, _)
BitAnd(a, b, n) ==
    IF n = 0 THEN 0
    ELSE ((a % 2) * (b % 2)) + 2 * BitAnd(a \div 2, b \div 2, n - 1)

RECURSIVE BitOr(_, _, _)
BitOr(a, b, n) ==
    IF n = 0 THEN 0
    ELSE (IF a % 2 = 1 \/ b % 2 = 1 THEN 1 ELSE 0)
         + 2 * BitOr(a \div 2, b \div 2, n - 1)

bitwise_and(p, q) == <<BitAnd(p[1], q[1], 8), BitAnd(p[2], q[2], 8), BitAnd(p[3], q[3], 8)>>
bitwise_or(p, q) == <<BitOr(p[1], q[1], 8), BitOr(p[2], q[2], 8), BitOr(p[3], q[3], 8)>>

composite(img_px, canvas_px) ==
    LET canvas_gray == bgr2gray(canvas_px)
        inv == threshold_inv(canvas_gray)
        canvas_inv == <<inv, inv, inv>>
    IN  bitwise_or(bitwise_and(img_px, canvas_inv), canvas_px)

-----------------------------------------------------------------------------
(* AirCanvasProcessor setters (app.py) *)

ColorNames == {"purple", "blue", "green", "red", "yellow", "white"}

\* set_color leaving the eraser flag as it is.
set_color_keeps_flag(s, color_name) ==
    IF color_name \in DOMAIN COLORS
    THEN [s EXCEPT !.draw_color = COLORS[color_name],
                   !.brush_thickness = BRUSH_THICKNESS]
    ELSE s

set_color(s, color_name) ==
    IF color_name \in DOMAIN COLORS
    THEN [s EXCEPT !.draw_color = COLORS[color_name], !.is_eraser_mode = FALSE,
                   !.brush_thickness = BRUSH_THICKNESS]
    ELSE s

MIN_BRUSH_SIZE == 5
MAX_BRUSH_SIZE == 50

\* set_brush_size storing its argument as it comes.
set_brush_size_unclamped(s, size) == [s EXCEPT !.brush_thickness = size]

set_brush_size(s, size) ==
    [s EXCEPT !.brush_thickness = Max2(MIN_BRUSH_SIZE, Min2(MAX_BRUSH_SIZE, size))]

\* clear_canvas leaving the canvas as it is.
clear_canvas_noop(s) == s

clear_canvas(s) == [s EXCEPT !.canvas = BlankCanvas]

BrushSizes == {MIN_BRUSH_SIZE - 1, BRUSH_THICKNESS, MAX_BRUSH_SIZE + 1}

-----------------------------------------------------------------------------
(* Inputs *)

\* What the detector reports for a frame: no hand, or a hand with any of the
\* 32 finger vectors and its index tip at one of the modelled positions.
Snapshots ==
    {<<>>} \cup {find_position(f, p) : f \in FingerVectors, p \in Cursors}

-----------------------------------------------------------------------------
(* The state machine *)

Assign(n) ==
    /\ canvas' = n.canvas
    /\ draw_color' = n.draw_color
    /\ brush_thickness' = n.brush_thickness
    /\ is_eraser_mode' = n.is_eraser_mode
    /\ prev_x' = n.prev_x
    /\ prev_y' = n.prev_y
    /\ mode_text' = n.mode_text
    /\ line_call' = n.line_call
    /\ raised' = n.raised
    /\ printed' = n.printed

ProgramInit ==
    /\ landmark_list = <<>>
    /\ canvas = BlankCanvas
    /\ draw_color = COLORS.purple
    /\ brush_thickness = BRUSH_THICKNESS
    /\ is_eraser_mode = FALSE
    /\ prev_x = 0
    /\ prev_y = 0
    /\ mode_text = ""
    /\ line_call = NoLine
    /\ op = "init"
    /\ raised = ""
    /\ key = ""
    /\ imwrite_result = ""
    /\ printed = ""

Idle4 ==
    /\ sel_in = None /\ sel_out = Unset
    /\ mix_in = None /\ mix_out = Unset
    /\ fu_in = None /\ fu_out = Unset
    /\ conc = None

Init ==
    /\ shell \in Shells
    /\ pc = IF shell = "desktop" THEN "frame" ELSE "recv"
    /\ ProgramInit
    /\ Idle4
    /\ steps = 0

Step ==
    /\ steps < MaxSteps
    /\ steps' = steps + 1

RecvFrame ==
    /\ Step
    /\ shell = "stream"
    /\ \E ll \in Snapshots :
         /\ landmark_list' = ll
         /\ Assign(recv(Session, ll))
    /\ op' = "frame"
    /\ UNCHANGED <<shell, pc, key, imwrite_result>>
    /\ UNCHANGED <<sel_in, sel_out, mix_in, mix_out, fu_in, fu_out, conc>>

ClearCanvas ==
    /\ Step
    /\ shell = "stream"
    /\ Assign(clear_canvas(Session))
    /\ op' = "clear_canvas"
    /\ UNCHANGED <<shell, pc, landmark_list, key, imwrite_result>>
    /\ UNCHANGED <<sel_in, sel_out, mix_in, mix_out, fu_in, fu_out, conc>>

SetColor ==
    /\ Step
    /\ shell = "stream"
    /\ \E color_name \in ColorNames : Assign(set_color(Session, color_name))
    /\ op' = "set_color"
    /\ UNCHANGED <<shell, pc, landmark_list, key, imwrite_result>>
    /\ UNCHANGED <<sel_in, sel_out, mix_in, mix_out, fu_in, fu_out, conc>>

SetBrushSize ==
    /\ Step
    /\ shell = "stream"
    /\ \E size \in BrushSizes : Assign(set_brush_size(Session, size))
    /\ op' = "set_brush_size"
    /\ UNCHANGED <<shell, pc, landmark_list, key, imwrite_result>>
    /\ UNCHANGED <<sel_in, sel_out, mix_in, mix_out, fu_in, fu_out, conc>>

MainFrame ==
    /\ Step
    /\ shell = "desktop"
    /\ pc = "frame"
    /\ \E ll \in Snapshots :
         /\ landmark_list' = ll
         /\ Assign(main_frame(Session, ll))
    /\ pc' = IF raised' # "" THEN "done" ELSE "key"
    /\ op' = "frame"
    /\ UNCHANGED <<shell, key, imwrite_result>>
    /\ UNCHANGED <<sel_in, sel_out, mix_in, mix_out, fu_in, fu_out, conc>>

\* cap.read() fails: the loop ends.
MainCaptureFail ==
    /\ Step
    /\ shell = "desktop"
    /\ pc = "frame"
    /\ pc' = "done"
    /\ op' = "capture_fail"
    /\ UNCHANGED <<shell, landmark_list, canvas, draw_color, brush_thickness,
                   is_eraser_mode, prev_x, prev_y, mode_text, line_call,
                   raised, key, imwrite_result, printed>>
    /\ UNCHANGED <<sel_in, sel_out, mix_in, mix_out, fu_in, fu_out, conc>>

MainKey ==
    /\ Step
    /\ shell = "desktop"
    /\ pc = "key"
    /\ \E k \in Keys, w \in WriteOutcomes :
         /\ k # "s" => w = "ok"
         /\ Assign(main_key(Session, k, w))
         /\ key' = k
         /\ imwrite_result' = IF k = "s" THEN w ELSE imwrite_result
         /\ pc' = IF k = "q" THEN "done" ELSE "frame"
    /\ op' = "key"
    /\ UNCHANGED <<shell, landmark_list>>
    /\ UNCHANGED <<sel_in, sel_out, mix_in, mix_out, fu_in, fu_out, conc>>

Next ==
    \/ RecvFrame
    \/ ClearCanvas
    \/ SetColor
    \/ SetBrushSize
    \/ MainFrame
    \/ MainCaptureFail
    \/ MainKey

Spec == Init /\ [][Next]_vars

-----------------------------------------------------------------------------
(* Palette lookups on their own: every point of the header band and of a   *)
(* margin around it, for the two deployed palettes.                        *)

LookupPoints(sh) ==
    {<<CAMERA_WIDTH(sh), header_height(sh), x, y>> :
        x \in (0 - MaxMargin)..(CAMERA_WIDTH(sh) + MaxMargin),
        y \in (0 - MaxMargin)..(header_height(sh) + MaxMargin)}

InitSel ==
    /\ shell \in Shells
    /\ pc = IF shell = "desktop" THEN "frame" ELSE "recv"
    /\ ProgramInit
    /\ steps = 0
    /\ sel_in \in LookupPoints(shell)
    /\ sel_out = Unset
    /\ mix_in = None /\ mix_out = Unset
    /\ fu_in = None /\ fu_out = Unset
    /\ conc = None

Lookup ==
    /\ sel_out = Unset
    /\ sel_out' = check_selection(sel_in[1], sel_in[2], sel_in[3], sel_in[4])
    /\ UNCHANGED <<shell, pc, op, landmark_list, canvas, draw_color,
                   brush_thickness, is_eraser_mode, prev_x, prev_y, mode_text,
                   line_call, sel_in, mix_in, mix_out, steps,
                   raised, key, imwrite_result, printed, fu_in, fu_out, conc>>

NextSel == Lookup

SpecSel == InitSel /\ [][NextSel]_vars

-----------------------------------------------------------------------------
(* Compositing on its own: one camera pixel against one canvas pixel.      *)

MaxChannel == 255
ChannelSamples == {0, 85, 170, MaxChannel}

CameraPixels ==
    {<<v, a, b>> : v \in 0..MaxChannel, a \in ChannelSamples, b \in ChannelSamples}
    \cup {<<a, v, b>> : v \in 0..MaxChannel, a \in ChannelSamples, b \in ChannelSamples}
    \cup {<<a, b, v>> : v \in 0..MaxChannel, a \in ChannelSamples, b \in ChannelSamples}

\* The colours a stroke can have: the palette swatches and the colour keys.
StrokeColors ==
    {colors[i].bgr : i \in 1..num_colors} \cup {COLORS[n] : n \in DOMAIN COLORS}

CanvasValues == {Background} \cup StrokeColors

InitMix ==
    /\ shell \in Shells
    /\ pc = IF shell = "desktop" THEN "frame" ELSE "recv"
    /\ ProgramInit
    /\ steps = 0
    /\ sel_in = None /\ sel_out = Unset
    /\ mix_in \in CameraPixels \X CanvasValues
    /\ mix_out = Unset
    /\ fu_in = None /\ fu_out = Unset
    /\ conc = None

Composite ==
    /\ mix_out = Unset
    /\ mix_out' = composite(mix_in[1], mix_in[2])
    /\ UNCHANGED <<shell, pc, op, landmark_list, canvas, draw_color,
                   brush_thickness, is_eraser_mode, prev_x, prev_y, mode_text,
                   line_call, sel_in, sel_out, mix_in, steps,
                   raised, key, imwrite_result, printed, fu_in, fu_out, conc>>

NextMix == Composite

SpecMix == InitMix /\ [][NextMix]_vars

-----------------------------------------------------------------------------
(* The classifier on its own: landmark lists of every length up to 21, the  *)
(* tips on either side of their joints and level with them, classified and *)
(* handed to the frame handler of either shell.                            *)

Offsets == (0 - MaxOffset)..MaxOffset
Wrist == <<100, 100>>

\* The list find_position builds from a hand of n landmarks: the thumb tip is
\* d[1] pixels right of its joint, the tip of finger k is d[k] pixels below
\* its joint.
landmarks(d, n) ==
    [k \in 1..n |->
        LET id == k - 1 IN
        IF id = THUMB_TIP THEN <<id, Wrist[1] + d[1], Wrist[2]>>
        ELSE IF id = INDEX_TIP THEN <<id, Wrist[1], Wrist[2] + d[2]>>
        ELSE IF id = MIDDLE_TIP THEN <<id, Wrist[1], Wrist[2] + d[3]>>
        ELSE IF id = RING_TIP THEN <<id, Wrist[1], Wrist[2] + d[4]>>
        ELSE IF id = PINKY_TIP THEN <<id, Wrist[1], Wrist[2] + d[5]>>
        ELSE <<id, Wrist[1], Wrist[2]>>]

FingerInputs ==
    {landmarks(d, n) : d \in [1..5 -> Offsets], n \in 0..NumLandmarks}

InitFingers ==
    /\ shell \in Shells
    /\ pc = IF shell = "desktop" THEN "frame" ELSE "recv"
    /\ ProgramInit
    /\ steps = 0
    /\ sel_in = None /\ sel_out = Unset
    /\ mix_in = None /\ mix_out = Unset
    /\ fu_in \in FingerInputs
    /\ fu_out = Unset
    /\ conc = None

Classify ==
    /\ fu_out = Unset
    /\ fu_out' = fingers_up(fu_in)
    /\ UNCHANGED <<shell, pc, op, landmark_list, canvas, draw_color,
                   brush_thickness, is_eraser_mode, prev_x, prev_y, mode_text,
                   line_call, sel_in, sel_out, mix_in, mix_out, steps,
                   raised, key, imwrite_result, printed, fu_in, conc>>

\* The frame whose snapshot is the classified list.
HandleSnapshot ==
    /\ op = "init"
    /\ landmark_list' = fu_in
    /\ Assign(IF shell = "stream" THEN recv(Session, fu_in)
                                  ELSE main_frame(Session, fu_in))
    /\ pc' = IF shell = "stream" THEN pc
             ELSE IF raised' # "" THEN "done" ELSE "key"
    /\ op' = "frame"
    /\ steps' = steps + 1
    /\ UNCHANGED <<shell, key, imwrite_result>>
    /\ UNCHANGED <<sel_in, sel_out, mix_in, mix_out, fu_in, fu_out, conc>>

NextFingers == Classify \/ HandleSnapshot

SpecFingers == InitFingers /\ [][NextFingers]_vars

-----------------------------------------------------------------------------
(* recv on the worker thread of webrtc_streamer (async_processing=True)     *)
(* overlapped with one setter call from another thread.  The class holds   *)
(* no lock, so the threads interleave between the statements that read or  *)
(* write an attribute of the processor; one statement is one step.         *)

Stmt(f, v) == [f |-> f, v |-> v]

\* The statements of recv that touch the session state, in program order.
recv_stmts(ll) ==
    LET index_tip == get_finger_tip(ll, 1)
        fingers == fingers_up(ll)
        selected == check_selection(CAMERA_WIDTH("stream"),
                                    header_height("stream"),
                                    index_tip[1], index_tip[2])
    IN  IF Len(ll) = 0 THEN <<>>
        ELSE IF fingers = SELECTION THEN
            <<Stmt("prev", <<0, 0>>)>> \o
            (IF selected = None THEN <<>>
             ELSE IF selected = ERASER_COLOR THEN
                 <<Stmt("draw_color", selected),
                   Stmt("is_eraser_mode", TRUE),
                   Stmt("brush_thickness", ERASER_THICKNESS)>>
             ELSE
                 <<Stmt("draw_color", selected),
                   Stmt("is_eraser_mode", FALSE),
                   Stmt("brush_thickness", BRUSH_THICKNESS)>>)
        ELSE IF fingers = DRAWING THEN
            <<Stmt("first", index_tip), Stmt("line", index_tip),
              Stmt("prev", index_tip)>>
        ELSE IF fingers = CLEAR THEN
            <<Stmt("canvas", BlankCanvas), Stmt("prev", <<0, 0>>)>>
        ELSE IF fingers = FIST THEN
            <<Stmt("is_eraser_mode", TRUE),
              Stmt("draw_color", ERASER_COLOR),
              Stmt("brush_thickness", ERASER_THICKNESS),
              Stmt("prev", <<0, 0>>)>>
        ELSE <<Stmt("prev", <<0, 0>>)>>

\* A setter call is <<name, argument>>.
SetterCalls ==
    {<<"clear_canvas", None>>}
    \cup {<<"set_color", c>> : c \in ColorNames}
    \cup {<<"set_brush_size", n>> : n \in BrushSizes}

setter_stmts(call) ==
    IF call[1] = "clear_canvas" THEN <<Stmt("canvas", BlankCanvas)>>
    ELSE IF call[1] = "set_color" THEN
        IF call[2] \in DOMAIN COLORS THEN
            <<Stmt("draw_color", COLORS[call[2]]),
              Stmt("is_eraser_mode", FALSE),
              Stmt("brush_thickness", BRUSH_THICKNESS)>>
        ELSE <<>>
    ELSE <<Stmt("brush_thickness",
                Max2(MIN_BRUSH_SIZE, Min2(MAX_BRUSH_SIZE, call[2])))>>

\* The whole call, as one step.
setter(s, call) ==
    IF call[1] = "clear_canvas" THEN clear_canvas(s)
    ELSE IF call[1] = "set_color" THEN set_color(s, call[2])
    ELSE set_brush_size(s, call[2])

\* One statement, on the state it finds.
Exec(s, st) ==
    IF st.f = "canvas" THEN [s EXCEPT !.canvas = st.v]
    ELSE IF st.f = "draw_color" THEN [s EXCEPT !.draw_color = st.v]
    ELSE IF st.f = "is_eraser_mode" THEN [s EXCEPT !.is_eraser_mode = st.v]
    ELSE IF st.f = "brush_thickness" THEN [s EXCEPT !.brush_thickness = st.v]
    ELSE IF st.f = "prev" THEN [s EXCEPT !.prev_x = st.v[1], !.prev_y = st.v[2]]
    ELSE IF st.f = "first" THEN
        IF s.prev_x = 0 /\ s.prev_y = 0
        THEN [s EXCEPT !.prev_x = st.v[1], !.prev_y = st.v[2]]
        ELSE s
    ELSE [s EXCEPT !.canvas = cv2_line(s.canvas, <<s.prev_x, s.prev_y>>, st.v,
                                       s.draw_color, s.brush_thickness)]

\* The attributes the two threads share.
Shared(s) ==
    <<s.canvas, s.draw_color, s.brush_thickness, s.is_eraser_mode,
      s.prev_x, s.prev_y>>

InitConc ==
    /\ shell = "stream"
    /\ pc = "recv"
    /\ ProgramInit
    /\ Idle4
    /\ steps = 0

\* Both calls are entered: a frame arrives while a setter is called.
Enter ==
    /\ conc = None
    /\ \E ll \in Snapshots, call \in SetterCalls :
         /\ landmark_list' = ll
         /\ conc' = [w |-> recv_stmts(ll), u |-> setter_stmts(call),
                     nw |-> Len(recv_stmts(ll)), nu |-> Len(setter_stmts(call)),
                     ll |-> ll, call |-> call, s0 |-> Session,
                     overlapped |-> FALSE]
    /\ op' = "enter"
    /\ UNCHANGED <<shell, pc, canvas, draw_color, brush_thickness,
                   is_eraser_mode, prev_x, prev_y, mode_text, line_call,
                   raised, key, imwrite_result, printed, steps>>
    /\ UNCHANGED <<sel_in, sel_out, mix_in, mix_out, fu_in, fu_out>>

Midway(rest, n) == Len(rest) > 0 /\ Len(rest) < n

WorkerStmt ==
    /\ conc # None
    /\ conc.w # <<>>
    /\ Assign(Exec(Session, Head(conc.w)))
    /\ conc' = [conc EXCEPT !.w = Tail(@),
                            !.overlapped = @ \/ Midway(conc.u, conc.nu)]
    /\ op' = "recv"
    /\ UNCHANGED <<shell, pc, landmark_list, key, imwrite_result, steps>>
    /\ UNCHANGED <<sel_in, sel_out, mix_in, mix_out, fu_in, fu_out>>

SetterStmt ==
    /\ conc # None
    /\ conc.u # <<>>
    /\ Assign(Exec(Session, Head(conc.u)))
    /\ conc' = [conc EXCEPT !.u = Tail(@),
                            !.overlapped = @ \/ Midway(conc.w, conc.nw)]
    /\ op' = conc.call[1]
    /\ UNCHANGED <<shell, pc, landmark_list, key, imwrite_result, steps>>
    /\ UNCHANGED <<sel_in, sel_out, mix_in, mix_out, fu_in, fu_out>>

NextConc == Enter \/ WorkerStmt \/ SetterStmt

SpecConc == InitConc /\ [][NextConc]_vars

BothReturned == conc # None /\ conc.w = <<>> /\ conc.u = <<>>

\* The shared state the two serial orders of the calls leave.
SerialOutcomes ==
    {Shared(setter(recv(conc.s0, conc.ll), conc.call)),
     Shared(recv(setter(conc.s0, conc.call), conc.ll))}

\* Runs in which neither call ran inside the other end as a serial order.
StmtsMatchCalls ==
    BothReturned /\ ~conc.overlapped => Shared(Session) \in SerialOutcomes

-----------------------------------------------------------------------------
(* Properties *)

\* The finger vector and the index tip of the frame that was handled last.
Hand == landmark_list # <<>>
Fingers == fingers_up(landmark_list)
Tip == get_finger_tip(landmark_list, 1)

ActivePatterns == {SELECTION, DRAWING, CLEAR, FIST}

\* A step that handles a frame, and the kind of frame it handles.
FrameStep == op' = "frame"
HandFrameStep == FrameStep /\ landmark_list' # <<>>
GestureStep(pattern) == HandFrameStep /\ fingers_up(landmark_list') = pattern

DrawingStateUnchanged ==
    /\ draw_color' = draw_color
    /\ brush_thickness' = brush_thickness
    /\ is_eraser_mode' = is_eraser_mode

\* The cursor lies in none of the swatch boxes of the shell's palette.
OutsideEveryBox(p) ==
    \A i \in 1..num_colors :
        ~InBox(color_boxes(CAMERA_WIDTH(shell), header_height(shell))[i],
               p[1], p[2])

\* The swatch the shell's palette reports under the cursor.
SwatchAt(p) ==
    check_selection(CAMERA_WIDTH(shell), header_height(shell), p[1], p[2])

\* A finished lookup of a point of the header band.
InBandLookup ==
    /\ sel_out # Unset
    /\ 0 <= sel_in[4] /\ sel_in[4] <= sel_in[2]

\* The colours a user can select: the palette swatches and the colour keys
\* or set_color names.
SelectableColors ==
    {colors[i].bgr : i \in 1..num_colors}
    \cup {COLORS[n] : n \in DOMAIN COLORS}

\* A step that clears: a Clear frame, clear_canvas(), or the 'c' key.
ClearStep ==
    \/ GestureStep(CLEAR)
    \/ op' = "clear_canvas"
    \/ op' = "key" /\ key' = "c"

\* The state a clearing step has just left.
JustCleared ==
    \/ op = "frame" /\ Hand /\ Fingers = CLEAR
    \/ op = "clear_canvas"
    \/ op = "key" /\ key = "c"

\* A step that handles the 's' key.
SaveStep == op' = "key" /\ key' = "s"

\* C1: in both handlers a hand-present frame is dispatched by exact match of
\* its finger vector: [0,1,1,0,0] to Selection, [0,1,0,0,0] to Drawing,
\* [1,1,1,1,1] to Clear, [0,0,0,0,0] to Eraser (the eraser tool becomes
\* active), every other vector to Idle.
C1_ExactDispatch ==
    (op = "frame" /\ Hand) =>
        /\ Fingers = SELECTION => mode_text \in {"SELECTION", "SELECTION MODE"}
        /\ Fingers = DRAWING => mode_text \in {"DRAWING", "DRAWING MODE"}
        /\ Fingers = CLEAR => mode_text \in {"CLEAR", "CLEAR CANVAS"}
        /\ Fingers = FIST => (mode_text = "ERASER" /\ draw_color = ERASER_COLOR)
        /\ Fingers \notin ActivePatterns => mode_text = ""

\* C2: a hand-present frame whose finger vector is none of the four active
\* patterns changes no canvas pixel, nor the draw colour, the brush
\* thickness or the eraser flag; it only unsets the previous cursor.
C2_IdleMutatesNothing ==
    [][(HandFrameStep /\ fingers_up(landmark_list') \notin ActivePatterns) =>
            /\ canvas' = canvas
            /\ DrawingStateUnchanged
            /\ line_call' = NoLine
            /\ prev_x' = 0 /\ prev_y' = 0]_vars

C2_Witness ==
    /\ op = "frame" /\ Hand /\ Fingers \notin ActivePatterns
    /\ canvas # BlankCanvas
    /\ prev_x = 0 /\ prev_y = 0

\* C3: a Drawing frame that finds the previous cursor unset only records the
\* cursor and changes no canvas pixel; the next consecutive Drawing frame
\* appends exactly one segment from the first cursor to the second.
C3_FirstDrawingFrameDrawsNothing ==
    [][GestureStep(DRAWING) =>
            /\ (prev_x = 0 /\ prev_y = 0) =>
                  /\ canvas' = canvas
                  /\ <<prev_x', prev_y'>> = get_finger_tip(landmark_list', 1)
            /\ (Hand /\ Fingers = DRAWING) =>
                  /\ line_call' # NoLine
                  /\ line_call'[1] = Tip
                  /\ line_call'[2] = get_finger_tip(landmark_list', 1)]_vars

\* C4: after a frame whose gesture is not Drawing (Selection, Clear, Eraser,
\* Idle, or no hand detected) the previous cursor is unset, so the first
\* Drawing frame after it starts its segment at its own cursor.
C4_NonDrawingFrameUnsetsCursor ==
    /\ []((op = "frame" /\ ~(Hand /\ Fingers = DRAWING)) =>
              (prev_x = 0 /\ prev_y = 0))
    /\ [][(GestureStep(DRAWING) /\ ~(Hand /\ Fingers = DRAWING)) =>
              line_call'[1] = get_finger_tip(landmark_list', 1)]_vars

\* C5: of two consecutive hand-present Drawing frames with cursors p and q
\* (the origin included) the second appends exactly the segment from p to q
\* and leaves q as the previous cursor.
C5_ConsecutiveDrawingFramesConnect ==
    [][(GestureStep(DRAWING) /\ Hand /\ Fingers = DRAWING) =>
            /\ line_call' = <<Tip, get_finger_tip(landmark_list', 1),
                              draw_color, brush_thickness>>
            /\ canvas' = cv2_line(canvas, Tip, get_finger_tip(landmark_list', 1),
                                  draw_color, brush_thickness)
            /\ <<prev_x', prev_y'>> = get_finger_tip(landmark_list', 1)]_vars

\* C6: a frame without a hand changes neither the canvas nor the draw
\* colour, the brush thickness or the eraser flag, and is not handled as the
\* Eraser gesture although its finger vector is [0,0,0,0,0].
C6_NoHandFrameIsIdle ==
    [][(FrameStep /\ landmark_list' = <<>>) =>
            /\ fingers_up(landmark_list') = FIST
            /\ canvas' = canvas
            /\ DrawingStateUnchanged
            /\ line_call' = NoLine
            /\ mode_text' = ""]_vars

C6_Witness ==
    /\ op = "frame" /\ ~Hand
    /\ shell = "stream"
    /\ ~is_eraser_mode /\ draw_color # ERASER_COLOR
    /\ canvas # BlankCanvas

\* C7: the composited pixel is the camera pixel where the canvas pixel is
\* background and the canvas pixel elsewhere, for every camera pixel and
\* every canvas pixel a stroke can produce.
C7_CompositePerPixel ==
    mix_out # Unset =>
        IF mix_in[2] = Background THEN mix_out = mix_in[1]
        ELSE mix_out = mix_in[2]

C7_Witness ==
    /\ mix_out = COLORS.blue
    /\ mix_in = <<<<MaxChannel, MaxChannel, MaxChannel>>, COLORS.blue>>

\* C8: after a Clear frame every canvas pixel is background and the
\* previous cursor is unset; draw colour, brush thickness and eraser flag
\* are as before.
C8_ClearFrame ==
    [][GestureStep(CLEAR) =>
            /\ \A q \in Pixels : canvas'[q] = Background
            /\ prev_x' = 0 /\ prev_y' = 0
            /\ DrawingStateUnchanged]_vars

C8_Witness ==
    /\ op = "frame" /\ Hand /\ Fingers = CLEAR
    /\ canvas = BlankCanvas
    /\ draw_color # COLORS.purple
    /\ steps >= 3

\* C9: check_selection returns none for every x when y > header_height, and
\* the first swatch (Purple) for y = 0 and every x in the first box's span.
C9_BandAndFirstBox ==
    sel_out # Unset =>
        /\ sel_in[4] > sel_in[2] => sel_out = None
        /\ (sel_in[4] = 0 /\ 0 <= sel_in[3] /\ sel_in[3] <= sel_in[1] \div 6) =>
              sel_out = <<255, 0, 255>>

C9_Witness ==
    /\ sel_out = <<255, 0, 255>>
    /\ sel_in[4] = 0
    /\ sel_in[3] = sel_in[1] \div 6

\* C10: for 0 <= y <= header_height and 0 <= x < frame_width (widths 640 and
\* 1280, six swatches) check_selection returns a swatch, never none.
C10_BoxesCoverHeader ==
    (/\ sel_out # Unset
     /\ 0 <= sel_in[4] /\ sel_in[4] <= sel_in[2]
     /\ 0 <= sel_in[3] /\ sel_in[3] < sel_in[1]) => sel_out # None

\* C11: fingers_up is a function of the snapshot alone: the empty list gives
\* [0,0,0,0,0]; of a 21-landmark list the thumb bit is 1 exactly when landmark
\* 4 is strictly left of landmark 3, and the bit of a finger with tip t is 1
\* exactly when landmark t is strictly above landmark t-2 (level counts as
\* down); a snapshot with only the index finger up is handled as Drawing.
C11_FingersUp ==
    /\ fu_out # Unset /\ fu_in = <<>> => fu_out = <<0, 0, 0, 0, 0>>
    /\ fu_out # Unset /\ Len(fu_in) = NumLandmarks =>
          /\ fu_out \in FingerVectors
          /\ fu_out[1] = 1 <=> Lm(fu_in, 4)[2] < Lm(fu_in, 3)[2]
          /\ \A t \in {8, 12, 16, 20} :
                fu_out[(t \div 4)] = 1 <=> Lm(fu_in, t)[3] < Lm(fu_in, t - 2)[3]
    /\ ( /\ op = "frame"
         /\ Len(landmark_list) = NumLandmarks
         /\ Lm(landmark_list, 4)[2] >= Lm(landmark_list, 3)[2]
         /\ Lm(landmark_list, 8)[3] < Lm(landmark_list, 6)[3]
         /\ \A t \in {12, 16, 20} :
               Lm(landmark_list, t)[3] >= Lm(landmark_list, t - 2)[3] )
        => /\ mode_text \in {"DRAWING", "DRAWING MODE"}
           /\ line_call # NoLine

\* The only-index-up hand whose middle tip is level with its joint has been
\* classified and handled.
C11_Witness ==
    /\ fu_out = <<0, 1, 0, 0, 0>>
    /\ Lm(fu_in, MIDDLE_TIP)[3] = Lm(fu_in, MIDDLE_TIP - 2)[3]
    /\ Lm(fu_in, THUMB_TIP)[2] = Lm(fu_in, THUMB_TIP - 1)[2]
    /\ op = "frame"
    /\ landmark_list = fu_in
    /\ mode_text = "DRAWING"
    /\ line_call # NoLine

\* C12: a snapshot of 1 to 20 landmarks is treated like the empty one:
\* fingers_up returns [0,0,0,0,0] without raising, and the frame that carries
\* it raises nothing and changes neither the canvas nor the drawing state.
C12_PartialSnapshotIsEmpty ==
    /\ fu_out # Unset /\ Len(fu_in) \in 1..(NumLandmarks - 1)
          => fu_out = <<0, 0, 0, 0, 0>>
    /\ op = "frame" /\ Len(landmark_list) \in 1..(NumLandmarks - 1) =>
          /\ raised = ""
          /\ canvas = BlankCanvas
          /\ draw_color = COLORS.purple
          /\ brush_thickness = BRUSH_THICKNESS
          /\ is_eraser_mode = FALSE

\* C13: the session state is accessed under mutual exclusion: however an
\* in-flight recv interleaves with clear_canvas, set_color or set_brush_size
\* called from another thread, the state both leave is the state of one of
\* the two serial orders of the calls.
C13_Serializable ==
    BothReturned => Shared(Session) \in SerialOutcomes

\* C14: clearing is idempotent: every clearing step (Clear frame,
\* clear_canvas(), 'c' key) leaves the all-background canvas, and one that
\* follows another clearing step leaves the canvas as it found it.
C14_ClearIdempotent ==
    [][ClearStep =>
          /\ canvas' = BlankCanvas
          /\ JustCleared => canvas' = canvas]_vars

\* clear_canvas() has been called right after a Clear frame.
C14_Witness ==
    /\ op = "clear_canvas"
    /\ Hand /\ Fingers = CLEAR /\ mode_text = "CLEAR"
    /\ steps >= 2
    /\ canvas = BlankCanvas

\* C15: the 's' key leaves the canvas, the draw colour and the previous
\* cursor unchanged whether the write succeeds or fails, and a write that
\* fails, by raising or by returning a failure result, is reported as an
\* error and not as a successful save.
C15_SaveReportsFailure ==
    [][SaveStep =>
          /\ canvas' = canvas
          /\ draw_color' = draw_color
          /\ prev_x' = prev_x /\ prev_y' = prev_y
          /\ imwrite_result' # "ok" => printed' = SaveError
          /\ imwrite_result' = "ok" => printed' = Saved]_vars

\* C16: a Selection frame never modifies the canvas, and when its cursor is
\* outside every swatch box it leaves draw colour, brush thickness and eraser
\* flag unchanged.
C16_SelectionOutsideSwatches ==
    [][GestureStep(SELECTION) =>
          /\ canvas' = canvas
          /\ line_call' = NoLine
          /\ OutsideEveryBox(get_finger_tip(landmark_list', 1))
                => DrawingStateUnchanged]_vars

\* A Selection frame below the header band, handled after a colour was set
\* and a stroke was drawn.
C16_Witness ==
    /\ op = "frame" /\ Hand /\ Fingers = SELECTION
    /\ OutsideEveryBox(Tip)
    /\ draw_color = COLORS.blue
    /\ canvas # BlankCanvas

\* C17: in the streaming shell a Selection frame whose cursor is inside a
\* swatch sets the draw colour and the tool from it (Eraser swatch: eraser
\* flag and eraser thickness; colour swatch: flag cleared, default
\* thickness); Drawing frames draw with the current colour and thickness,
\* which only a selection, an Eraser gesture or a setter call changes.
C17_SelectionSetsTool ==
    [][shell = "stream" =>
          LET selected == SwatchAt(get_finger_tip(landmark_list', 1)) IN
          /\ GestureStep(SELECTION) /\ selected # None =>
                /\ draw_color' = selected
                /\ selected = ERASER_COLOR =>
                      is_eraser_mode' /\ brush_thickness' = ERASER_THICKNESS
                /\ selected # ERASER_COLOR =>
                      ~is_eraser_mode' /\ brush_thickness' = BRUSH_THICKNESS
          /\ GestureStep(DRAWING) =>
                /\ line_call'[3] = draw_color
                /\ line_call'[4] = brush_thickness
          /\ FrameStep /\ ~GestureStep(SELECTION) /\ ~GestureStep(FIST)
                => DrawingStateUnchanged
          /\ op' = "clear_canvas" => DrawingStateUnchanged]_vars

\* A Selection frame on the Eraser swatch has set the eraser tool, after a
\* stroke was drawn.
C17_Witness ==
    /\ shell = "stream"
    /\ op = "frame" /\ Hand /\ Fingers = SELECTION
    /\ SwatchAt(Tip) = ERASER_COLOR
    /\ draw_color = ERASER_COLOR
    /\ is_eraser_mode /\ brush_thickness = ERASER_THICKNESS
    /\ canvas # BlankCanvas

\* C18 as stated: for an in-band point check_selection returns the swatch of
\* box floor(x / box_width), so on a boundary x = i * box_width shared by two
\* boxes it returns the swatch of box i, the right one.
C18_BoundaryHalfOpen ==
    (/\ InBandLookup
     /\ 0 <= sel_in[3] /\ sel_in[3] < num_colors * box_width(sel_in[1]))
    => sel_out = colors[sel_in[3] \div box_width(sel_in[1]) + 1].bgr

\* C18, amended: on a boundary x = i * box_width shared by two boxes
\* check_selection returns the swatch of box i-1, the left one (the spans are
\* closed and the first box in list order wins); for every other in-band x
\* from 0 to N * box_width it returns the swatch of box floor(x / box_width).
C18_BoundaryGoesLeft ==
    (/\ InBandLookup
     /\ 0 <= sel_in[3] /\ sel_in[3] <= num_colors * box_width(sel_in[1]))
    => LET bw == box_width(sel_in[1])
           x == sel_in[3]
           i == IF x > 0 /\ x % bw = 0 THEN x \div bw - 1 ELSE x \div bw
       IN  sel_out = colors[i + 1].bgr

\* The boundary between the second and the third box, at the lower edge of
\* the band, has been looked up and gave the second swatch.
C18_Witness ==
    /\ sel_out = colors[2].bgr
    /\ sel_in[3] = 2 * box_width(sel_in[1])
    /\ sel_in[4] = sel_in[2]

\* C19: in the streaming shell the Eraser gesture is persistent: the Eraser
\* frame sets the eraser colour and thickness and changes no canvas pixel;
\* while the colour is the eraser colour a Drawing frame paints background
\* only; and the eraser colour stays until a Selection frame or set_color
\* replaces it (the colour in use before the fist is never restored).
C19_EraserGesturePersists ==
    [][shell = "stream" =>
          /\ GestureStep(FIST) =>
                /\ draw_color' = ERASER_COLOR
                /\ brush_thickness' = ERASER_THICKNESS
                /\ canvas' = canvas
          /\ draw_color = ERASER_COLOR /\ GestureStep(DRAWING) =>
                /\ line_call'[3] = Background
                /\ \A q \in Pixels : canvas'[q] \in {canvas[q], Background}
          /\ ( /\ draw_color = ERASER_COLOR
               /\ ~GestureStep(SELECTION)
               /\ op' # "set_color" )
                => draw_color' = ERASER_COLOR]_vars

\* An Eraser frame has been handled over a canvas that holds a stroke.
C19_Witness ==
    /\ shell = "stream"
    /\ op = "frame" /\ Hand /\ Fingers = FIST
    /\ draw_color = ERASER_COLOR /\ brush_thickness = ERASER_THICKNESS
    /\ canvas # BlankCanvas

\* C20: in the streaming shell, after any sequence of frames and setter
\* calls run one after the other, the eraser flag is true exactly when the
\* draw colour is (0, 0, 0).
C20_FlagIffEraserColor ==
    shell = "stream" => (is_eraser_mode <=> draw_color = <<0, 0, 0>>)

\* set_color has been called after an Eraser frame.
C20_Witness ==
    /\ shell = "stream"
    /\ op = "set_color"
    /\ mode_text = "ERASER"
    /\ ~is_eraser_mode
    /\ draw_color # ERASER_COLOR

\* C21: the canvas is mutated only by a Drawing frame, which draws one
\* segment, and by a clear (Clear frame, clear_canvas(), 'c' key); every
\* other step leaves each canvas pixel unchanged, and in every reachable
\* state each canvas pixel is background or a selectable colour.
C21_CanvasWriters ==
    /\ [](\A q \in Pixels : canvas[q] \in {Background} \cup SelectableColors)
    /\ [][/\ ~GestureStep(DRAWING) /\ ~ClearStep => canvas' = canvas
          /\ GestureStep(DRAWING) =>
                canvas' = [q \in Pixels |->
                             IF Covers(q, line_call'[1], line_call'[2],
                                       line_call'[4])
                             THEN line_call'[3] ELSE canvas[q]]]_vars

\* set_color('red') has been called over a canvas that holds a purple stroke.
C21_Witness ==
    /\ op = "set_color"
    /\ draw_color = COLORS.red
    /\ \E q \in Pixels : canvas[q] = COLORS.purple

\* C22: in the streaming shell the brush thickness always lies in
\* [MIN_BRUSH_SIZE, MAX_BRUSH_SIZE] = [5, 50], initially and after any
\* sequence of frames, set_color calls and set_brush_size calls, whose
\* argument is clamped into that range.
C22_BrushThicknessInRange ==
    shell = "stream" => (5 <= brush_thickness /\ brush_thickness <= 50)

\* set_brush_size has been called with a size below the range and stored the
\* lower limit.
C22_Witness ==
    /\ shell = "stream"
    /\ op = "set_brush_size"
    /\ brush_thickness = MIN_BRUSH_SIZE

====
